---- MODULE Spec2Model ----
(***************************************************************************)
(* Article aggregation and enrichment pipeline of BetterFeed.              *)
(*                                                                         *)
(* Two generations of the endpoint /api/articles/fetch are modelled:       *)
(*   - the synchronous pipeline of src/app/api/articles/fetch/route.ts     *)
(*     (fetchAllArticles -> enrichWithContentAndSummary -> persistArticles *)
(*     -> response), specification SpecSync;                               *)
(*   - the "smart cache" pipeline of src/unnamed/part_012 lines 442-929    *)
(*     (fetchAllArticles -> loadArticlesWithSmartCache ->                  *)
(*     processArticlesInBackground fired and not awaited -> response),     *)
(*     specification SpecBg;                                               *)
(* Single calls are followed on their own: the aggregator fetchAllArticles *)
(* (SpecAgg), enrichWithContentAndSummary (SpecEnrich),                    *)
(* generateArticleSummary (SpecSum) and the limit the handlers compute     *)
(* (SpecLimit).  SpecFeed is the feed client's infinite query against the  *)
(* endpoint (src/hooks/useFeed.ts), SpecView the view counter              *)
(* (src/pages/api/posts/[id]/view.ts).                                     *)
(***************************************************************************)
EXTENDS Integers, Sequences, FiniteSets, TLC

(***************************************************************************)
(* Bounds of the model.                                                    *)
(***************************************************************************)
\* the most candidates the overlapping requests carry together
MaxTotalCands == 3

(***************************************************************************)
(* Values.                                                                 *)
(***************************************************************************)
\* a text value is a record [k, of]: its kind and what it was derived from
Txt(k, of) == [k |-> k, of |-> of]
\* null / undefined
NULL == Txt("null", "none")
\* the empty string ''
EMPTY == Txt("empty", "none")
\* JavaScript truthiness of a string | null value
Truthy(c) == c.k \notin {"null", "empty"}
\* article.id is undefined
NOID == 0

\* the length of a text, by kind and origin (characters)
TextLen(c) ==
  CASE c.k \in {"null", "empty"} -> 0
    [] c.k = "text" /\ c.of = "absLong" -> 120
    [] c.k = "text" /\ c.of = "absShort" -> 30
    [] c.k = "text" /\ c.of = "abs50" -> 50
    [] c.k = "text" /\ c.of = "abs51" -> 51
    [] c.k = "text" /\ c.of = "absGarbled" -> 120
    [] c.k = "text" /\ c.of = "absHuge" -> 400
    [] c.k = "text" /\ c.of = "descGarbled" -> 80
    [] c.k = "trunc" -> 303
    [] c.k = "text" /\ c.of = "descLong" -> 80
    [] c.k = "text" /\ c.of = "descMid" -> 30
    [] c.k = "text" /\ c.of = "descTiny" -> 10
    [] c.k = "text" /\ c.of = "page" -> 400
    [] OTHER -> 100

MAX_PER_SOURCE == 10

(***************************************************************************)
(* Sequence helpers (Array.prototype.slice, concat, swap).                 *)
(***************************************************************************)
Min(a, b) == IF a <= b THEN a ELSE b

\* array.slice(0, n)
SliceTo(s, n) == SubSeq(s, 1, Min(n, Len(s)))

\* array.map(f)
MapSeq(f(_), s) == [i \in 1..Len(s) |-> f(s[i])]

Swap(arr, i, j) == [arr EXCEPT ![i] = arr[j], ![j] = arr[i]]

\* the set of the elements of a sequence
Range(s) == {s[i] : i \in 1..Len(s)}

\* s and t hold the same items with the same multiplicities
IsPermutation(s, t) ==
  /\ Len(s) = Len(t)
  /\ \A x \in Range(s) \cup Range(t) :
       Cardinality({i \in 1..Len(s) : s[i] = x}) =
       Cardinality({i \in 1..Len(t) : t[i] = x})

(***************************************************************************)
(* Source adapters (route.ts).  A wire outcome is what the provider        *)
(* answered: [st, items], st one of "ok", "neterr", "http", "malformed",   *)
(* "nokey"; an item is [url, title, desc].                                 *)
(***************************************************************************)
formatArticle(title, url, source) ==
  [id |-> NOID,
   title |-> IF title = "" THEN "Untitled" ELSE title,
   url |-> url,
   source |-> source,
   content |-> NULL,
   abstract |-> NULL]

\* a settled promise of Promise.allSettled
Fulfilled(v) == [status |-> "fulfilled", value |-> v]

ArxivEntry(e) ==
  [formatArticle(IF e.title = "" THEN "arXiv Article" ELSE e.title, e.url, "arXiv")
     EXCEPT !.abstract = IF Truthy(e.desc) THEN e.desc ELSE NULL]

fetchArxiv(limit, w) ==
  IF w.st = "ok" THEN Fulfilled(MapSeq(ArxivEntry, SliceTo(w.items, limit)))
  ELSE Fulfilled(<<>>)

HackerNewsStory(e) ==
  formatArticle(IF e.title = "" THEN "Hacker News Story" ELSE e.title, e.url, "Hacker News")

fetchHackerNews(limit, w) ==
  IF w.st = "ok"
  THEN Fulfilled(SliceTo(MapSeq(HackerNewsStory, SliceTo(w.items, limit)), limit))
  ELSE Fulfilled(<<>>)

ScienceDailyEntry(e) ==
  [formatArticle(e.title, e.url, "ScienceDaily")
     EXCEPT !.content = IF Truthy(e.desc) /\ TextLen(e.desc) > 20 THEN e.desc ELSE NULL]

fetchScienceDaily(limit, w) ==
  IF w.st = "ok" THEN Fulfilled(MapSeq(ScienceDailyEntry, SliceTo(w.items, limit)))
  ELSE Fulfilled(<<>>)

NewsAPIItem(e) ==
  [formatArticle(IF e.title = "" THEN "Business News" ELSE e.title, e.url, "NewsAPI Business")
     EXCEPT !.content = IF Truthy(e.desc) /\ TextLen(e.desc) > 20 THEN e.desc ELSE NULL]

\* a faulty adapter: a non-2xx status escapes as a rejection
fetchNewsAPIUncaught(limit, w) ==
  IF w.st = "http" THEN [status |-> "rejected", value |-> <<>>]
  ELSE IF w.st = "ok" THEN Fulfilled(MapSeq(NewsAPIItem, SliceTo(w.items, limit)))
  ELSE Fulfilled(<<>>)

\* the outbound requests fetchNewsAPI makes: none without NEWSAPI_KEY
NewsAPIRequests(w) == IF w.st = "nokey" THEN 0 ELSE 1

fetchNewsAPI(limit, w) ==
  IF w.st = "nokey" THEN Fulfilled(<<>>)
  ELSE IF w.st = "ok" THEN Fulfilled(MapSeq(NewsAPIItem, SliceTo(w.items, limit)))
  ELSE Fulfilled(<<>>)

(***************************************************************************)
(* Aggregator (route.ts).                                                  *)
(***************************************************************************)
\* the draws Math.floor(Math.random() * (i + 1)) of one shuffle of n items:
\* js[i] is the index drawn for position i (1-based, js[i] <= i)
RandomDraws(n) == {js \in [1..n -> 1..n] : \A i \in 1..n : js[i] <= i}

RECURSIVE ShuffleFrom(_, _, _)
ShuffleFrom(arr, i, js) ==
  IF i <= 1 THEN arr ELSE ShuffleFrom(Swap(arr, i, js[i]), i - 1, js)

\* Fisher-Yates over a copy of the array
shuffleArray(array, js) == ShuffleFrom(array, Len(array), js)

RECURSIVE PushUntilEmpty(_, _)
\* a faulty loop: gives up at the first source that delivered nothing
PushUntilEmpty(results, articles) ==
  IF results = <<>> THEN articles
  ELSE IF Head(results).status # "fulfilled" \/ Head(results).value = <<>> THEN articles
  ELSE PushUntilEmpty(Tail(results), articles \o Head(results).value)

RECURSIVE PushFulfilled(_, _)
\* for (const result of results) if fulfilled: articles.push(...result.value)
PushFulfilled(results, articles) ==
  IF results = <<>> THEN articles
  ELSE PushFulfilled(Tail(results),
         IF Head(results).status = "fulfilled"
         THEN articles \o Head(results).value ELSE articles)

\* the fetchers array of fetchAllArticles: the four promises, in registration order,
\* each with the outcome it will settle with
Fetchers(limit, wire) ==
  <<fetchArxiv(limit, wire[1]), fetchHackerNews(limit, wire[2]),
    fetchScienceDaily(limit, wire[3]), fetchNewsAPI(limit, wire[4])>>

\* the orders in which the four promises can settle: finish[k] is the k-th to settle
FinishOrders == {f \in [1..4 -> 1..4] : \A i \in 1..4, j \in 1..4 : i # j => f[i] # f[j]}

\* a faulty collection: the results are taken in the order the promises settle
SettledAsFinished(promises, finish) == [k \in 1..Len(finish) |-> promises[finish[k]]]

RECURSIVE SettleFrom(_, _, _, _)
\* the promises settle one after the other; each outcome is stored at the index its
\* promise has in the input
SettleFrom(promises, finish, k, results) ==
  IF k > Len(finish) THEN results
  ELSE SettleFrom(promises, finish, k + 1,
                  [results EXCEPT ![finish[k]] = promises[finish[k]]])

\* Promise.allSettled(promises), the promises settling in the order finish
AllSettled(promises, finish) ==
  SettleFrom(promises, finish, 1,
             [i \in 1..Len(promises) |-> [status |-> "pending", value |-> <<>>]])

\* const results = await Promise.allSettled(fetchers)
SettledFetchers(limit, wire, finish) == AllSettled(Fetchers(limit, wire), finish)

\* the articles array of fetchAllArticles before the shuffle
CollectArticles(limit, wire, finish) == PushFulfilled(SettledFetchers(limit, wire, finish), <<>>)

\* fetchAllArticles(limit, shouldShuffle); js are the random draws of the run
fetchAllArticles(limit, shouldShuffle, wire, js, finish) ==
  IF shouldShuffle THEN shuffleArray(CollectArticles(limit, wire, finish), js)
  ELSE CollectArticles(limit, wire, finish)

(***************************************************************************)
(* What the providers may answer.                                          *)
(***************************************************************************)
Item(url, title, desc) == [url |-> url, title |-> title, desc |-> desc]
Wire(st, items) == [st |-> st, items |-> items]

\* an arXiv abstract page, with its abstract
ax == Item("https://arxiv.org/abs/1", "tA", Txt("text", "absLong"))
h1 == Item("u1", "tH1", NULL)
h2 == Item("u2", "tH2", NULL)
s2 == Item("u2", "tS2", Txt("text", "descLong"))
n1 == Item("u1", "tN1", Txt("text", "descMid"))

\* the ways an outbound call fails: network error, non-2xx status, malformed payload
CallFailures == {Wire(st, <<>>) : st \in {"neterr", "http", "malformed"}}

ArxivWires == CallFailures \cup {Wire("ok", <<>>), Wire("ok", <<ax>>)}
HackerNewsWires == CallFailures \cup {Wire("ok", <<h1>>), Wire("ok", <<h1, h2>>)}
ScienceDailyWires == CallFailures \cup {Wire("ok", <<s2>>)}
NewsAPIWires == CallFailures \cup {Wire("nokey", <<>>), Wire("ok", <<n1>>)}

Wires == {w \in [1..4 -> ArxivWires \cup HackerNewsWires \cup ScienceDailyWires \cup NewsAPIWires] :
            /\ w[1] \in ArxivWires /\ w[2] \in HackerNewsWires
            /\ w[3] \in ScienceDailyWires /\ w[4] \in NewsAPIWires}

Limits == {1, MAX_PER_SOURCE}

(***************************************************************************)
(* Summarization service (src/unnamed/part_004).  llm is what the model    *)
(* call does: "ok" (text), "empty" (text that trims to ''), "throws".      *)
(***************************************************************************)
\* a faulty fallback: the text is returned whole
NoTruncation(text) == text

\* abstract.length > 300 ? abstract.substring(0, 300) + '...' : abstract
Truncate300(text) == IF TextLen(text) > 300 THEN Txt("trunc", text.of) ELSE text

\* generateArticleSummary(title, abstract, fullText); title is given by name
generateArticleSummary(title, abstract, fullText, llm) ==
  LET content == IF Truthy(abstract) THEN abstract ELSE fullText IN
  IF ~Truthy(content) THEN Txt("templated", title)
  ELSE IF llm = "ok" THEN Txt("llm", content.of)
  ELSE IF llm = "empty" THEN EMPTY
  ELSE IF Truthy(abstract) THEN Truncate300(abstract)
  ELSE IF Truthy(fullText) THEN Truncate300(fullText)
  ELSE Txt("templated", title)

(***************************************************************************)
(* The posts table.  A row is [url, title, content]; its id is its index   *)
(* in posts (GENERATED ALWAYS AS IDENTITY).  article_url carries no        *)
(* uniqueness constraint (src/unnamed/part_000, posts table).              *)
(***************************************************************************)
Row(url, title, content) == [url |-> url, title |-> title, content |-> content]

\* .from('posts').select('id, article_url, title, content').in('article_url', urls)
SelectIn(table, urls) ==
  LET ids == {i \in 1..Len(table) : table[i].url \in urls}
      RECURSIVE Rows(_)
      Rows(i) == IF i > Len(table) THEN <<>>
                 ELSE (IF i \in ids
                       THEN <<[id |-> i, article_url |-> table[i].url,
                               title |-> table[i].title, content |-> table[i].content]>>
                       ELSE <<>>) \o Rows(i + 1)
  IN Rows(1)

\* .from('posts').update({ content }).eq('id', id)
UpdateContent(table, id, content) ==
  IF id \in 1..Len(table) THEN [table EXCEPT ![id].content = content] ELSE table

\* .from('posts').insert(rows): every row is appended
InsertRows(table, rows) == table \o rows

\* new Map(rows.map(post => [post.article_url, post])).get(url): the last row wins
NOROW == [id |-> NOID, article_url |-> "", title |-> "", content |-> NULL]
MapGet(rows, url) ==
  LET hits == {i \in 1..Len(rows) : rows[i].article_url = url} IN
  IF hits = {} THEN NOROW
  ELSE rows[CHOOSE i \in hits : \A j \in hits : j <= i]

\* the URLs that have more than one row
DuplicatedUrls(table) ==
  {table[i].url : i \in {i \in 1..Len(table) : \E j \in 1..Len(table) : j # i /\ table[j].url = table[i].url}}

Reqs == {1, 2}

VARIABLES
  aggIn,    \* SpecAgg: the call fetchAllArticles(limit, shouldShuffle) and the providers' answers
  aggOut,   \* SpecAgg: [status, value] of the call; status "pending" before it returns
  supabaseAdmin, \* whether SUPABASE_SERVICE_KEY is configured (the admin client is not null)
  posts,    \* the posts table
  pc,       \* per request: the handler's position
  cands,    \* per request: the articles returned by fetchAllArticles
  shown,    \* per request: the articles handed to toArticleResponse
  response, \* per request: the response body's articles
  queue,    \* per request: articlesToProcess handed to processArticlesInBackground
  task,     \* per request: the state of each task of the cycle
  cycle,    \* per request: [st, i]: the state of the for loop of the cycle and its index i
  attempts, \* per request: how often each queued candidate has been attempted
  systemUserId, \* per request: the system profile's id found by the handler ("" if none)
  toUpdate, \* per request: articlesToUpdate of persistArticles
  updates,  \* per request: the state of each update of articlesToUpdate
  newArticles, \* per request: newArticles of persistArticles
  calls,    \* per request: the outbound calls of the foreground enrichment, each
            \* [url, kind, cached]: kind "page" or "llm", cached = the URL had a Record
            \* with a summary when the call went out
  lookup,   \* per request: how the store answered the handler's queries
            \* ("nosystem", "lookuperr", "ok"; "none" before)
  overlapped, \* whether request 2 arrived before the persistence work of request 1 had ended
  enrIn,    \* SpecEnrich: the call enrichWithContentAndSummary([article], generateSummaries)
            \* and what the page and the LLM answer
  enrOut,   \* SpecEnrich: [status, value, calls] of the call
  sumIn,    \* SpecSum: the call generateArticleSummary(title, abstract, fullText) and
            \* what the LLM answers
  sumOut,   \* SpecSum: [status, value] of the call
  limIn,    \* SpecLimit: the request: [method, raw] (GET, the limit query parameter) or
            \* [method, body] (POST, the request body)
  limOut,   \* SpecLimit: [status, limit]: the limit the handler passes to fetchAllArticles
  feedReq,  \* SpecFeed: the page parameter of the feed client's request in flight (0: none)
  feedResp, \* SpecFeed: the endpoint's answer to it: [status, articles, meta]
  feedPages, \* SpecFeed: data.pages of the client's infinite query, each page [items, nextCursor]
  feedAsked, \* SpecFeed: the page parameters the client has sent so far
  feedScroll, \* SpecFeed: "end" once the scroller's sentinel has come into view
  viewCount, \* SpecView: view_count of the post
  viewBefore, \* SpecView: view_count of the post before the requests
  viewPc,   \* SpecView: per request: the position of incrementView
  viewRead, \* SpecView: per request: currentPost.view_count as the request read it
  viewRes   \* SpecView: per request: the response ("none" before)

limVars == <<limIn, limOut>>
feedVars == <<feedReq, feedResp, feedPages, feedAsked, feedScroll>>
viewVars == <<viewCount, viewBefore, viewPc, viewRead, viewRes>>
\* the calls followed on their own
callVars == <<aggIn, aggOut, enrIn, enrOut, sumIn, sumOut>>
\* the variables of the specifications apart from the two pipelines
aggVars == <<callVars, limVars, feedVars, viewVars>>
reqVars == <<supabaseAdmin, posts, pc, cands, shown, response>>
bgVars == <<queue, task, cycle, attempts, systemUserId>>
syncVars == <<toUpdate, updates, newArticles, calls>>
histVars == <<lookup, overlapped>>
vars == <<aggIn, aggOut, supabaseAdmin, posts, pc, cands, shown, response,
          queue, task, cycle, attempts, systemUserId, toUpdate, updates, newArticles, calls,
          lookup, overlapped, enrIn, enrOut, sumIn, sumOut, limVars, feedVars, viewVars>>

\* the variables of the request pipelines before any request
PipelineIdle ==
  /\ pc = [r \in Reqs |-> "idle"]
  /\ cands = [r \in Reqs |-> <<>>]
  /\ shown = [r \in Reqs |-> <<>>]
  /\ response = [r \in Reqs |-> <<>>]
  /\ queue = [r \in Reqs |-> <<>>]
  /\ task = [r \in Reqs |-> <<>>]
  /\ cycle = [r \in Reqs |-> [st |-> "none", i |-> 0]]
  /\ attempts = [r \in Reqs |-> <<>>]
  /\ systemUserId = [r \in Reqs |-> ""]
  /\ toUpdate = [r \in Reqs |-> <<>>]
  /\ updates = [r \in Reqs |-> <<>>]
  /\ newArticles = [r \in Reqs |-> <<>>]
  /\ calls = [r \in Reqs |-> {}]
  /\ lookup = [r \in Reqs |-> "none"]
  /\ overlapped = FALSE

\* no call of enrichWithContentAndSummary or generateArticleSummary is followed on its own
EnrichIdle ==
  /\ enrIn = [article |-> <<>>, generateSummaries |-> TRUE, page |-> "text", llm |-> "ok"]
  /\ enrOut = [status |-> "pending", value |-> <<>>, calls |-> {}]

SumIdle ==
  /\ sumIn = [title |-> "", abstract |-> NULL, fullText |-> NULL, llm |-> "ok"]
  /\ sumOut = [status |-> "pending", value |-> NULL]

\* the view counter endpoint serves the requests 1..3
ViewReqs == {1, 2, 3}

LimitIdle ==
  /\ limIn = [method |-> "none"]
  /\ limOut = [status |-> "pending"]

FeedIdle ==
  /\ feedReq = 0
  /\ feedResp = [status |-> "none"]
  /\ feedPages = <<>>
  /\ feedAsked = {}
  /\ feedScroll = "top"

ViewIdle ==
  /\ viewCount = 0
  /\ viewBefore = 0
  /\ viewPc = [r \in ViewReqs |-> "idle"]
  /\ viewRead = [r \in ViewReqs |-> 0]
  /\ viewRes = [r \in ViewReqs |-> "none"]

AggIdle == 
  /\ aggIn = [limit |-> MAX_PER_SOURCE, shouldShuffle |-> TRUE, wire |-> <<>>]
  /\ aggOut = [status |-> "pending", value |-> <<>>]
  /\ EnrichIdle
  /\ SumIdle
  /\ LimitIdle
  /\ FeedIdle
  /\ ViewIdle

(***************************************************************************)
(* SpecAgg: one call of fetchAllArticles.                                  *)
(***************************************************************************)
InitAgg ==
  /\ aggIn \in [limit : Limits, shouldShuffle : BOOLEAN, wire : Wires, finish : FinishOrders]
  /\ aggOut = [status |-> "pending", value |-> <<>>]
  /\ EnrichIdle
  /\ SumIdle
  /\ LimitIdle /\ FeedIdle /\ ViewIdle
  /\ supabaseAdmin = TRUE
  /\ posts = <<>>
  /\ PipelineIdle

AggCall ==
  /\ aggOut.status = "pending"
  /\ \E js \in RandomDraws(Len(CollectArticles(aggIn.limit, aggIn.wire, aggIn.finish))) :
       aggOut' = [status |-> "returned",
                  value |-> fetchAllArticles(aggIn.limit, aggIn.shouldShuffle, aggIn.wire, js,
                                             aggIn.finish)]
  /\ UNCHANGED <<aggIn, enrIn, enrOut, sumIn, sumOut, reqVars, bgVars, syncVars, histVars,
                 limVars, feedVars, viewVars>>

NextAgg == AggCall

SpecAgg == InitAgg /\ [][NextAgg]_vars

\* the adapters whose outbound call succeeded
Succeeded(wire) == {i \in 1..4 : wire[i].st = "ok"}

RECURSIVE ConcatSucceeded(_, _, _)
\* the results of the succeeding adapters, concatenated in registration order
ConcatSucceeded(limit, wire, i) ==
  IF i > 4 THEN <<>>
  ELSE (IF i \in Succeeded(wire) THEN Fetchers(limit, wire)[i].value ELSE <<>>)
       \o ConcatSucceeded(limit, wire, i + 1)

(***************************************************************************)
(* The smart-cache pipeline (src/unnamed/part_012, lines 442-929).         *)
(***************************************************************************)
\* the adapters of this generation only format title, url and source
PlainArxiv(e) == formatArticle(IF e.title = "" THEN "arXiv Article" ELSE e.title, e.url, "arXiv")
PlainScienceDaily(e) == formatArticle(e.title, e.url, "ScienceDaily")
PlainNewsAPI(e) ==
  formatArticle(IF e.title = "" THEN "Business News" ELSE e.title, e.url, "NewsAPI Business")

SettledFetchersV3(limit, wire) ==
  <<IF wire[1].st = "ok" THEN Fulfilled(MapSeq(PlainArxiv, SliceTo(wire[1].items, limit)))
    ELSE Fulfilled(<<>>),
    fetchHackerNews(limit, wire[2]),
    IF wire[3].st = "ok" THEN Fulfilled(MapSeq(PlainScienceDaily, SliceTo(wire[3].items, limit)))
    ELSE Fulfilled(<<>>),
    IF wire[4].st = "ok" THEN Fulfilled(MapSeq(PlainNewsAPI, SliceTo(wire[4].items, limit)))
    ELSE Fulfilled(<<>>)>>

fetchAllArticlesV3(limit, shouldShuffle, wire, js) ==
  LET articles == PushFulfilled(SettledFetchersV3(limit, wire), <<>>) IN
  IF shouldShuffle THEN shuffleArray(articles, js) ELSE articles

\* what the page of a candidate answers to fetchArticleContent
PageOutcomes == {"neterr", "http", "notext", "text"}

\* fetchArticleContent(url) of this generation: the stripped text, or null
fetchArticleContentV3(url, page) ==
  IF url = "" THEN NULL
  ELSE IF page = "text" THEN Txt("text", "page")
  ELSE NULL

\* whether fetchArticleContent(url) of this generation sends an HTTP request to url
IssuesFetchV3(url) == url # ""

\* `This ${source} article explores ${title}. Click to read ...`
SmartPlaceholder(a) == Txt("smart", a.title)

\* articles.map(a => a.url).filter(Boolean)
ArticleUrls(articles) == {articles[i].url : i \in 1..Len(articles)} \ {""}

RECURSIVE CacheSplit(_, _, _, _)
\* the loop of loadArticlesWithSmartCache over the candidates:
\* [withContent, toProcess] for the rows the lookup returned
CacheSplit(articles, rows, withContent, toProcess) ==
  IF articles = <<>> THEN [withContent |-> withContent, toProcess |-> toProcess]
  ELSE LET article == Head(articles)
           cached == MapGet(rows, article.url)
       IN IF Truthy(cached.content)
          THEN CacheSplit(Tail(articles), rows,
                 Append(withContent, [article EXCEPT !.id = cached.id, !.content = cached.content]),
                 toProcess)
          ELSE CacheSplit(Tail(articles), rows,
                 Append(withContent, [article EXCEPT !.id = cached.id,
                                                     !.content = SmartPlaceholder(article)]),
                 Append(toProcess, [article EXCEPT !.id = cached.id]))

\* loadArticlesWithSmartCache(articles); env is what the store did:
\* "nosystem" (no system profile), "lookuperr" (the posts query failed), "ok"
loadArticlesWithSmartCache(articles, admin, table, env) ==
  IF ~admin \/ env = "nosystem"
  THEN [articlesWithContent |-> MapSeq(LAMBDA a : [a EXCEPT !.content = SmartPlaceholder(a)], articles),
        articlesToProcess |-> <<>>,
        systemUserId |-> ""]
  ELSE LET existingPosts == IF env = "ok" THEN SelectIn(table, ArticleUrls(articles)) ELSE <<>>
           split == CacheSplit(articles, existingPosts, <<>>, <<>>)
       IN [articlesWithContent |-> split.withContent,
           articlesToProcess |-> split.toProcess,
           systemUserId |-> "system"]

\* article.id ?? (article.url || `${source}-${index}`): [post, key]
ResponseId(a) ==
  IF a.id # NOID THEN [post |-> a.id, key |-> ""]
  ELSE [post |-> NOID, key |-> IF a.url # "" THEN a.url ELSE a.source]

toArticleResponse(articles) ==
  MapSeq(LAMBDA a : [id |-> ResponseId(a), title |-> a.title, article_url |-> a.url,
                     content |-> IF Truthy(a.content) THEN a.content ELSE NULL,
                     source |-> a.source], articles)

\* processArticlesInBackground handles the queue 2 articles at a time
BATCH_SIZE == 2

\* a faulty batch, articles.slice(i, i + 1): every second article is skipped
NarrowBatch(i, n) == {k \in 1..n : i < k /\ k <= i + 1}

\* the positions (1-based) of articles.slice(i, i + 2)
Batch(i, n) == {k \in 1..n : i < k /\ k <= i + BATCH_SIZE}

\* the task of an article is started: fetchArticleContent(article.url) is called
StartBatch(r, i) ==
  /\ task' = [task EXCEPT ![r] =
       [k \in 1..Len(queue[r]) |-> IF k \in Batch(i, Len(queue[r])) THEN "fetching" ELSE @[k]]]
  /\ attempts' = [attempts EXCEPT ![r] =
       [k \in 1..Len(queue[r]) |-> IF k \in Batch(i, Len(queue[r])) THEN @[k] + 1 ELSE @[k]]]

\* what the providers may answer to a request of this generation
axp == Item("https://arxiv.org/pdf/1.pdf", "tA", NULL)
BgWires ==
  {<<Wire("neterr", <<>>), Wire("ok", <<h1>>), Wire("ok", <<s2>>), Wire("ok", <<n1>>)>>,
   <<Wire("ok", <<axp>>), Wire("ok", <<h1, h2>>), Wire("malformed", <<>>), Wire("nokey", <<>>)>>,
   <<Wire("ok", <<axp>>), Wire("ok", <<h1>>), Wire("ok", <<s2>>), Wire("ok", <<n1>>)>>,
   <<Wire("ok", <<>>), Wire("ok", <<h1>>), Wire("malformed", <<>>), Wire("http", <<>>)>>,
   <<Wire("neterr", <<>>), Wire("http", <<>>), Wire("malformed", <<>>), Wire("http", <<>>)>>}

\* the lists fetchAllArticles(limit, true) may return to a request of this generation
BgCandidateLists ==
  UNION {{fetchAllArticlesV3(limit, TRUE, wire, js) :
            js \in RandomDraws(Len(fetchAllArticlesV3(limit, FALSE, wire, <<>>)))} :
         limit \in Limits, wire \in BgWires}

\* the posts table when the first request arrives
InitialStores ==
  {<<>>, <<Row("u1", "tOld", NULL)>>, <<Row("u1", "tOld", Txt("llm", "page"))>>}

InitBg ==
  /\ AggIdle
  /\ supabaseAdmin \in BOOLEAN
  /\ posts \in InitialStores
  /\ PipelineIdle

\* the candidates the requests received so far carry together
TotalCands == Len(cands[1]) + Len(cands[2])

\* the handler of request r has responded and its background cycle, if any, has ended
BgRunEnded(r) == pc[r] = "responded" /\ cycle[r].st \in {"none", "done"}

\* GET/POST up to the lookup of loadArticlesWithSmartCache:
\* const articles = await fetchAllArticles(limit, true), then
\* await loadArticlesWithSmartCache(articles)
BgReceive(r) ==
  /\ pc[r] = "idle"
  /\ r = 1 \/ pc[1] # "idle"
  /\ \E articles \in BgCandidateLists :
       /\ TotalCands + Len(articles) <= MaxTotalCands
       /\ \E env \in {"nosystem", "lookuperr", "ok"} :
         LET got == loadArticlesWithSmartCache(articles, supabaseAdmin, posts, env) IN
         /\ cands' = [cands EXCEPT ![r] = articles]
         /\ shown' = [shown EXCEPT ![r] = got.articlesWithContent]
         /\ queue' = [queue EXCEPT ![r] = got.articlesToProcess]
         /\ task' = [task EXCEPT ![r] = [k \in 1..Len(got.articlesToProcess) |-> "queued"]]
         /\ attempts' = [attempts EXCEPT ![r] = [k \in 1..Len(got.articlesToProcess) |-> 0]]
         /\ systemUserId' = [systemUserId EXCEPT ![r] = got.systemUserId]
         /\ lookup' = [lookup EXCEPT ![r] = env]
  /\ overlapped' = (overlapped \/ (r = 2 /\ ~BgRunEnded(1)))
  /\ pc' = [pc EXCEPT ![r] = "cached"]
  /\ UNCHANGED <<syncVars, aggVars, supabaseAdmin, posts, response, cycle>>

\* whether GET/POST call processArticlesInBackground and the call passes its guard
StartsCycle(r) ==
  /\ Len(queue[r]) > 0 /\ systemUserId[r] # ""
  /\ ~(Len(queue[r]) = 0 \/ ~supabaseAdmin)

\* if (articlesToProcess.length > 0 && systemUserId) processArticlesInBackground(...):
\* the call runs up to its first await, which starts the tasks of the first batch
BgSchedule(r) ==
  /\ pc[r] = "cached"
  /\ IF StartsCycle(r)
     THEN /\ cycle' = [cycle EXCEPT ![r] = [st |-> "running", i |-> 0]]
          /\ StartBatch(r, 0)
     ELSE UNCHANGED <<cycle, task, attempts>>
  /\ pc' = [pc EXCEPT ![r] = "scheduled"]
  /\ UNCHANGED <<histVars, syncVars, aggVars, supabaseAdmin, posts, cands, shown, response, queue, systemUserId>>

\* a faulty handler: awaits processArticlesInBackground before it responds
CanRespondAfterCycle(r) == pc[r] = "scheduled" /\ cycle[r].st \in {"none", "done"}

\* whether the handler can go on to build its response: the call of
\* processArticlesInBackground is not awaited
CanRespond(r) == pc[r] = "scheduled"

\* return NextResponse.json({ articles: toArticleResponse(articlesWithContent), ... })
BgRespond(r) ==
  /\ CanRespond(r)
  /\ response' = [response EXCEPT ![r] = toArticleResponse(shown[r])]
  /\ pc' = [pc EXCEPT ![r] = "responded"]
  /\ UNCHANGED <<histVars, syncVars, aggVars, supabaseAdmin, posts, cands, shown, bgVars>>

\* the summary a task writes: generateArticleSummary(content), content given as title
TaskSummary == generateArticleSummary("page", NULL, NULL, "ok")

\* a faulty write: the task inserts a row whether or not the article carries an id
TaskWriteAlwaysInserts(table, article, db) ==
  IF db # "ok" THEN table
  ELSE InsertRows(table, <<Row(article.url, article.title, TaskSummary)>>)

\* the write of a task reaches the store: update by id, or insert; db is the store's answer
TaskWrite(table, article, db) ==
  IF db # "ok" THEN table
  ELSE IF article.id # NOID THEN UpdateContent(table, article.id, TaskSummary)
  ELSE InsertRows(table, <<Row(article.url, article.title, TaskSummary)>>)

\* a faulty task: without content it stores the placeholder
TaskStoresPlaceholder(table, article, page, db) ==
  IF Truthy(fetchArticleContentV3(article.url, page)) THEN TaskWrite(table, article, db)
  ELSE InsertRows(table, <<Row(article.url, article.title, SmartPlaceholder(article))>>)

\* the body of a task: the table after it, for what the page and the store answer;
\* if (!content) return, else the summary is computed and written
TaskEffect(table, article, page, db) ==
  IF Truthy(fetchArticleContentV3(article.url, page)) THEN TaskWrite(table, article, db)
  ELSE table

\* one task of a batch runs to its end: fetchArticleContent(article.url) returns; without
\* content the task returns, with content it computes the summary and its write reaches
\* the store (the store is touched at this one point of the task)
TaskSettles(r, k) ==
  /\ k \in 1..Len(queue[r])
  /\ task[r][k] = "fetching"
  /\ \E page \in PageOutcomes, db \in {"ok", "error"} :
       posts' = TaskEffect(posts, queue[r][k], page, db)
  /\ task' = [task EXCEPT ![r][k] = "settled"]
  /\ UNCHANGED <<histVars, syncVars, aggVars, supabaseAdmin, pc, cands, shown, response, queue, cycle, attempts,
                 systemUserId>>

\* a faulty loop: does not wait for the batch
BatchNotAwaited(r) == TRUE

\* await Promise.allSettled(batch...) returns once every task of the batch has settled
BatchSettled(r) == \A k \in Batch(cycle[r].i, Len(queue[r])) : task[r][k] = "settled"

\* after the batch: the loop ends, or, the 1000 ms pause over, i += 2 and the tasks of
\* the next batch start
BgBatchDone(r) ==
  /\ cycle[r].st = "running"
  /\ BatchSettled(r)
  /\ IF cycle[r].i + BATCH_SIZE < Len(queue[r])
     THEN /\ cycle' = [cycle EXCEPT ![r].i = cycle[r].i + BATCH_SIZE]
          /\ StartBatch(r, cycle[r].i + BATCH_SIZE)
     ELSE /\ cycle' = [cycle EXCEPT ![r].st = "done"]
          /\ UNCHANGED <<task, attempts>>
  /\ UNCHANGED <<histVars, syncVars, aggVars, reqVars, queue, systemUserId>>

NextBg ==
  \E r \in Reqs :
    \/ BgReceive(r)
    \/ BgSchedule(r)
    \/ BgRespond(r)
    \/ BgBatchDone(r)
    \/ \E k \in 1..MaxTotalCands : TaskSettles(r, k)

SpecBg == InitBg /\ [][NextBg]_vars

(***************************************************************************)
(* The synchronous pipeline (src/app/api/articles/fetch/route.ts).         *)
(***************************************************************************)
\* the URLs of the model for which url.includes('.pdf') || url.includes('arxiv.org')
PdfOrArxivUrls == {"https://arxiv.org/abs/1", "https://arxiv.org/pdf/1.pdf", "https://x/paper.pdf"}

\* what the page of a candidate answers: "broken" is text the quality check rejects
SyncPageOutcomes == {"neterr", "broken", "text"}

\* whether fetchArticleContent(url) sends an HTTP request to url
IssuesFetch(url) == url # "" /\ url \notin PdfOrArxivUrls

\* fetchArticleContent(url): the extracted text, or null
fetchArticleContent(url, page) ==
  IF ~IssuesFetch(url) THEN NULL
  ELSE IF page = "text" THEN Txt("text", "page")
  ELSE NULL

\* the source-appropriate fallback message of enrichWithContentAndSummary
FallbackMessage(article) == Txt("fallback", article.title)

\* a faulty Enricher: the provider abstract is never used
AbstractIgnored(article) == FALSE

\* which branch of the enrichment an article takes
UsesAbstract(article) == Truthy(article.abstract) /\ TextLen(article.abstract) > 50
UsesContent(article) ==
  ~UsesAbstract(article) /\ Truthy(article.content) /\ TextLen(article.content) > 50
Scrapes(article) == ~UsesAbstract(article) /\ ~UsesContent(article)

\* the body of articles.map(async (article) => ...) in enrichWithContentAndSummary
EnrichOne(article, page, llm) ==
  IF UsesAbstract(article)
  THEN [article EXCEPT !.content = generateArticleSummary(article.title, article.abstract, NULL, llm)]
  ELSE IF UsesContent(article)
  THEN [article EXCEPT !.content = generateArticleSummary(article.title, article.content, NULL, llm)]
  ELSE LET scrapedContent == fetchArticleContent(article.url, page) IN
       IF ~Truthy(scrapedContent)
       THEN [article EXCEPT !.content = FallbackMessage(article)]
       ELSE [article EXCEPT !.content = generateArticleSummary(article.title, scrapedContent, NULL, llm)]

\* enrichWithContentAndSummary(articles, generateSummaries)
enrichWithContentAndSummary(articles, generateSummaries, page, llm) ==
  IF ~generateSummaries THEN articles
  ELSE MapSeq(LAMBDA a : EnrichOne(a, page, llm), articles)

\* whether the URL has a row with a summary in the table
HasCachedSummary(table, url) ==
  \E i \in 1..Len(table) : table[i].url = url /\ Truthy(table[i].content)

\* the outbound calls of the enrichment of one list
EnrichCalls(articles, generateSummaries, page, table) ==
  IF ~generateSummaries THEN {}
  ELSE LET idx == 1..Len(articles)
           fetched == {i \in idx : Scrapes(articles[i]) /\ IssuesFetch(articles[i].url)}
           summarized == {i \in idx : ~Scrapes(articles[i])
                             \/ Truthy(fetchArticleContent(articles[i].url, page))}
       IN {[url |-> articles[i].url, kind |-> "page",
            cached |-> HasCachedSummary(table, articles[i].url)] : i \in fetched}
          \cup
          {[url |-> articles[i].url, kind |-> "llm",
            cached |-> HasCachedSummary(table, articles[i].url)] : i \in summarized}

RECURSIVE PersistSplit(_, _, _, _, _)
\* the loop of persistArticles over the articles (lines 450-470):
\* [stored, articlesToUpdate, newArticles] for the rows the lookup returned
PersistSplit(articles, rows, stored, upd, new) ==
  IF articles = <<>> THEN [stored |-> stored, articlesToUpdate |-> upd, newArticles |-> new]
  ELSE LET article == Head(articles)
           existing == MapGet(rows, article.url)
       IN IF existing.id # NOID
          THEN IF ~Truthy(existing.content) /\ Truthy(article.content)
               THEN PersistSplit(Tail(articles), rows, stored,
                      Append(upd, [article EXCEPT !.id = existing.id]), new)
               ELSE PersistSplit(Tail(articles), rows,
                      Append(stored, [article EXCEPT !.id = existing.id,
                         !.content = IF Truthy(existing.content) THEN existing.content
                                     ELSE article.content]),
                      upd, new)
          ELSE PersistSplit(Tail(articles), rows, stored, upd, Append(new, article))

\* `This is an educational article from ${source}. Visit the link ...`
EduPlaceholder(article) == Txt("edu", article.source)

\* articlesWithSummaries: the new articles, a placeholder where content is missing
WithSummaries(articles) ==
  MapSeq(LAMBDA a : IF Truthy(a.content) THEN a ELSE [a EXCEPT !.content = EduPlaceholder(a)],
         articles)

\* newPosts: the rows of the batch insert
NewPosts(articles) ==
  MapSeq(LAMBDA a : Row(a.url, a.title, IF Truthy(a.content) THEN a.content ELSE NULL), articles)

\* a faulty pairing: the inserted posts are taken from the last to the first
InsertedReversed(articles, firstId) ==
  [i \in 1..Len(articles) |->
     [articles[Len(articles) + 1 - i] EXCEPT !.id = firstId + Len(articles) - i]]

\* insertedPosts.forEach((post, index) => stored.push({...article, id, url, title, content}))
InsertedArticles(articles, firstId) ==
  [i \in 1..Len(articles) |-> [articles[i] EXCEPT !.id = firstId + i - 1]]

\* what the providers may answer to a request of this generation
SyncWires ==
  {<<Wire("neterr", <<>>), Wire("ok", <<h1>>), Wire("ok", <<s2>>), Wire("ok", <<n1>>)>>,
   <<Wire("ok", <<ax>>), Wire("ok", <<h1, h2>>), Wire("malformed", <<>>), Wire("nokey", <<>>)>>,
   <<Wire("ok", <<ax>>), Wire("ok", <<h1>>), Wire("ok", <<s2>>), Wire("ok", <<n1>>)>>,
   <<Wire("ok", <<>>), Wire("ok", <<h1>>), Wire("malformed", <<>>), Wire("http", <<>>)>>,
   <<Wire("neterr", <<>>), Wire("http", <<>>), Wire("malformed", <<>>), Wire("http", <<>>)>>}

\* the lists fetchAllArticles(limit, true) may return to a request of this generation
SyncCandidateLists ==
  UNION {{fetchAllArticles(limit, TRUE, wire, js, finish) :
            js \in RandomDraws(Len(CollectArticles(limit, wire, finish)))} :
         limit \in Limits, wire \in SyncWires, finish \in FinishOrders}

InitSync ==
  /\ AggIdle
  /\ supabaseAdmin \in BOOLEAN
  /\ posts \in InitialStores
  /\ PipelineIdle

\* persistArticles of request r has returned
SyncRunEnded(r) == pc[r] \in {"persisted", "responded"}

\* GET/POST up to the lookup of persistArticles: fetchAllArticles(limit, true),
\* enrichWithContentAndSummary(articles, generateSummaries), then in persistArticles the
\* system profile and the bulk lookup of the candidates' URLs, and the split of the
\* candidates.  env is what the store did: "nosystem", "lookuperr", "ok"
SyncReceive(r) ==
  /\ pc[r] = "idle"
  /\ r = 1 \/ pc[1] # "idle"
  /\ \E articles \in SyncCandidateLists :
       /\ TotalCands + Len(articles) <= MaxTotalCands
       /\ \E generateSummaries \in BOOLEAN, page \in SyncPageOutcomes,
             llm \in {"ok", "empty", "throws"}, env \in {"nosystem", "lookuperr", "ok"} :
         LET enriched == enrichWithContentAndSummary(articles, generateSummaries, page, llm)
             existingPosts == IF env = "ok" THEN SelectIn(posts, ArticleUrls(enriched)) ELSE <<>>
             split == PersistSplit(enriched, existingPosts, <<>>, <<>>, <<>>)
         IN
         /\ cands' = [cands EXCEPT ![r] = articles]
         /\ calls' = [calls EXCEPT ![r] = EnrichCalls(articles, generateSummaries, page, posts)]
         /\ lookup' = [lookup EXCEPT ![r] = env]
         /\ IF ~supabaseAdmin \/ env = "nosystem"
            THEN /\ shown' = [shown EXCEPT ![r] = enriched]
                 /\ UNCHANGED <<toUpdate, updates, newArticles>>
                 /\ pc' = [pc EXCEPT ![r] = "persisted"]
            ELSE /\ shown' = [shown EXCEPT ![r] = split.stored]
                 /\ toUpdate' = [toUpdate EXCEPT ![r] = split.articlesToUpdate]
                 /\ updates' = [updates EXCEPT ![r] =
                                  [k \in 1..Len(split.articlesToUpdate) |-> "pending"]]
                 /\ newArticles' = [newArticles EXCEPT ![r] = split.newArticles]
                 /\ pc' = [pc EXCEPT ![r] = "split"]
  /\ overlapped' = (overlapped \/ (r = 2 /\ ~SyncRunEnded(1)))
  /\ UNCHANGED <<aggVars, supabaseAdmin, posts, response, bgVars>>

\* one update of articlesToUpdate reaches the store (lines 478-483); on an error the
\* row is left as it is
SyncUpdate(r, k) ==
  /\ pc[r] = "split"
  /\ k \in 1..Len(toUpdate[r])
  /\ updates[r][k] = "pending"
  /\ \E db \in {"ok", "error"} :
       posts' = IF db = "ok" THEN UpdateContent(posts, toUpdate[r][k].id, toUpdate[r][k].content)
                ELSE posts
  /\ updates' = [updates EXCEPT ![r][k] = "done"]
  /\ UNCHANGED <<aggVars, supabaseAdmin, pc, cands, shown, response, bgVars,
                 toUpdate, newArticles, calls, histVars>>

\* a faulty handling of the insert error: the articles that could not be saved are dropped
DropUnsaved(articles) == <<>>

\* if (insertError) stored.push(...articlesWithSummaries)
PushUnsaved(articles) == articles

\* the updates have settled: stored.push(...updatedArticles), then the batch insert of
\* the new articles (lines 505-551) and the end of persistArticles
SyncInsert(r) ==
  /\ pc[r] = "split"
  /\ \A k \in 1..Len(toUpdate[r]) : updates[r][k] = "done"
  /\ LET articlesWithSummaries == WithSummaries(newArticles[r])
         afterUpdates == shown[r] \o toUpdate[r]
     IN IF Len(newArticles[r]) = 0
        THEN /\ shown' = [shown EXCEPT ![r] = afterUpdates]
             /\ posts' = posts
        ELSE \E db \in {"ok", "error"} :
               IF db = "ok"
               THEN /\ posts' = InsertRows(posts, NewPosts(articlesWithSummaries))
                    /\ shown' = [shown EXCEPT ![r] = afterUpdates \o
                                   InsertedArticles(articlesWithSummaries, Len(posts) + 1)]
               ELSE /\ posts' = posts
                    /\ shown' = [shown EXCEPT ![r] = afterUpdates \o PushUnsaved(articlesWithSummaries)]
  /\ pc' = [pc EXCEPT ![r] = "persisted"]
  /\ UNCHANGED <<aggVars, supabaseAdmin, cands, response, bgVars, syncVars, histVars>>

\* return NextResponse.json({ articles: toArticleResponse(stored), ... })
SyncRespond(r) ==
  /\ pc[r] = "persisted"
  /\ response' = [response EXCEPT ![r] = toArticleResponse(shown[r])]
  /\ pc' = [pc EXCEPT ![r] = "responded"]
  /\ UNCHANGED <<aggVars, supabaseAdmin, posts, cands, shown, bgVars, syncVars, histVars>>

NextSync ==
  \E r \in Reqs :
    \/ SyncReceive(r)
    \/ SyncInsert(r)
    \/ SyncRespond(r)
    \/ \E k \in 1..MaxTotalCands : SyncUpdate(r, k)

SpecSync == InitSync /\ [][NextSync]_vars

Spec == SpecSync

(***************************************************************************)
(* SpecEnrich: one call of enrichWithContentAndSummary over one article.   *)
(***************************************************************************)
\* the articles the adapters can hand to the Enricher
EnrichArticles ==
  {ArxivEntry(Item(url, "tA", desc)) :
     url \in {"https://arxiv.org/abs/1", "u1"},
     desc \in {NULL, Txt("text", "absShort"), Txt("text", "abs50"), Txt("text", "abs51"),
               Txt("text", "absLong"), Txt("text", "absGarbled"), Txt("text", "absHuge")}}
  \cup {HackerNewsStory(Item(url, "tH1", NULL)) : url \in {"u1", "", "https://x/paper.pdf"}}
  \cup {ScienceDailyEntry(Item("u2", "tS2", desc)) :
          desc \in {NULL, Txt("text", "descTiny"), Txt("text", "descMid"),
                    Txt("text", "descLong"), Txt("text", "descGarbled")}}
  \cup {NewsAPIItem(Item("u1", "tN1", desc)) :
          desc \in {NULL, Txt("text", "descMid"), Txt("text", "descLong")}}

InitEnrich ==
  /\ enrIn \in [article : EnrichArticles, generateSummaries : BOOLEAN,
                page : SyncPageOutcomes, llm : {"ok", "empty", "throws"}]
  /\ enrOut = [status |-> "pending", value |-> <<>>, calls |-> {}]
  /\ aggIn = [limit |-> MAX_PER_SOURCE, shouldShuffle |-> TRUE, wire |-> <<>>]
  /\ aggOut = [status |-> "pending", value |-> <<>>]
  /\ SumIdle
  /\ LimitIdle /\ FeedIdle /\ ViewIdle
  /\ supabaseAdmin = TRUE
  /\ posts = <<>>
  /\ PipelineIdle

\* await enrichWithContentAndSummary(articles, generateSummaries)
EnrichCall ==
  /\ enrOut.status = "pending"
  /\ enrOut' = [status |-> "returned",
                value |-> enrichWithContentAndSummary(<<enrIn.article>>, enrIn.generateSummaries,
                                                      enrIn.page, enrIn.llm),
                calls |-> EnrichCalls(<<enrIn.article>>, enrIn.generateSummaries, enrIn.page, <<>>)]
  /\ UNCHANGED <<aggIn, aggOut, enrIn, sumIn, sumOut, reqVars, bgVars, syncVars, histVars,
                 limVars, feedVars, viewVars>>

NextEnrich == EnrichCall

SpecEnrich == InitEnrich /\ [][NextEnrich]_vars

(***************************************************************************)
(* SpecSum: one call of generateArticleSummary.                            *)
(***************************************************************************)
\* the texts a caller can pass as abstract or as fullText
SumTexts ==
  {NULL, EMPTY, Txt("text", "absShort"), Txt("text", "absLong"), Txt("text", "absHuge"),
   Txt("text", "absGarbled"), Txt("text", "descLong"), Txt("text", "page")}

InitSum ==
  /\ sumIn \in [title : {"tA"}, abstract : SumTexts, fullText : SumTexts,
                llm : {"ok", "empty", "throws"}]
  /\ sumOut = [status |-> "pending", value |-> NULL]
  /\ aggIn = [limit |-> MAX_PER_SOURCE, shouldShuffle |-> TRUE, wire |-> <<>>]
  /\ aggOut = [status |-> "pending", value |-> <<>>]
  /\ EnrichIdle
  /\ LimitIdle /\ FeedIdle /\ ViewIdle
  /\ supabaseAdmin = TRUE
  /\ posts = <<>>
  /\ PipelineIdle

\* await generateArticleSummary(title, abstract, fullText): the function has no path
\* that throws (the LLM call is inside its try block)
SumCall ==
  /\ sumOut.status = "pending"
  /\ sumOut' = [status |-> "returned",
                value |-> generateArticleSummary(sumIn.title, sumIn.abstract, sumIn.fullText,
                                                 sumIn.llm)]
  /\ UNCHANGED <<aggIn, aggOut, enrIn, enrOut, sumIn, reqVars, bgVars, syncVars, histVars,
                 limVars, feedVars, viewVars>>

NextSum == SumCall

SpecSum == InitSum /\ [][NextSum]_vars

(***************************************************************************)
(* SpecLimit: the limit GET and POST compute and pass to fetchAllArticles. *)
(* A JavaScript number is [k, v]: k "number" with v its value in units of  *)
(* 1/Scale, or k "NaN", or k "Infinity" (the positive one).                *)
(***************************************************************************)
\* the longest query or body string of the model
MaxChars == 3

RECURSIVE Pow10(_)
Pow10(n) == IF n = 0 THEN 1 ELSE 10 * Pow10(n - 1)

\* the unit of the numbers: every decimal fraction a string of the model can spell is a
\* whole number of units
Scale == Pow10(MaxChars)

JSNumber(v) == [k |-> "number", v |-> v]
NaN == [k |-> "NaN", v |-> 0]
Infinity == [k |-> "Infinity", v |-> 0]
Integer(n) == JSNumber(n * Scale)

\* Math.max(a, b) and Math.min(a, b): NaN if an argument is NaN
MathMax(a, b) ==
  IF a.k = "NaN" \/ b.k = "NaN" THEN NaN
  ELSE IF a.k = "Infinity" \/ b.k = "Infinity" THEN Infinity
  ELSE IF a.v >= b.v THEN a ELSE b

MathMin(a, b) ==
  IF a.k = "NaN" \/ b.k = "NaN" THEN NaN
  ELSE IF a.k = "Infinity" THEN b
  ELSE IF b.k = "Infinity" THEN a
  ELSE IF a.v <= b.v THEN a ELSE b

\* the characters of the strings of the model; a string is a sequence of them
Chars == {"-", "0", "1", "5", ".", "x"}
IsDigit(c) == c \in {"0", "1", "5"}
DigitValue(c) == CASE c = "0" -> 0 [] c = "1" -> 1 [] c = "5" -> 5

RECURSIVE LeadingDigits(_)
\* the longest prefix of decimal digits
LeadingDigits(s) ==
  IF s = <<>> \/ ~IsDigit(Head(s)) THEN <<>>
  ELSE <<Head(s)>> \o LeadingDigits(Tail(s))

RECURSIVE DigitsValue(_, _)
DigitsValue(s, acc) ==
  IF s = <<>> THEN acc ELSE DigitsValue(Tail(s), acc * 10 + DigitValue(Head(s)))

\* Number.parseInt(s, 10): an optional sign and the leading digits; NaN without a digit
parseInt(s) ==
  LET neg == s # <<>> /\ Head(s) = "-"
      digits == LeadingDigits(IF neg THEN Tail(s) ELSE s)
  IN IF digits = <<>> THEN NaN
     ELSE Integer((IF neg THEN -1 ELSE 1) * DigitsValue(digits, 0))

\* Number(s) of a string: 0 for '', the value of a decimal literal that spans the whole
\* string, else NaN
StringToNumber(s) ==
  IF s = <<>> THEN Integer(0)
  ELSE LET neg == Head(s) = "-"
           body == IF neg THEN Tail(s) ELSE s
           whole == LeadingDigits(body)
           rest == SubSeq(body, Len(whole) + 1, Len(body))
           frac == IF rest # <<>> /\ Head(rest) = "." THEN Tail(rest) ELSE <<>>
           wellFormed ==
             /\ rest = <<>> \/ (Head(rest) = "." /\ LeadingDigits(frac) = frac)
             /\ whole # <<>> \/ frac # <<>>
       IN IF ~wellFormed THEN NaN
          ELSE JSNumber((IF neg THEN -1 ELSE 1) *
                        (DigitsValue(whole, 0) * Scale
                         + DigitsValue(frac, 0) * Pow10(MaxChars - Len(frac))))

\* Number(value) of a JSON value, or of undefined
ToNumber(value) ==
  CASE value.k = "undefined" -> NaN
    [] value.k = "null" -> Integer(0)
    [] value.k = "boolean" -> IF value.b THEN Integer(1) ELSE Integer(0)
    [] value.k = "string" -> StringToNumber(value.s)
    [] OTHER -> value

\* a number is falsy when it is NaN or 0
FalsyNumber(n) == n.k = "NaN" \/ (n.k = "number" /\ n.v = 0)

\* String(MAX_PER_SOURCE)
MaxPerSourceString == <<"1", "0">>

\* the limit of GET; raw is req.nextUrl.searchParams.get('limit'): null or a string
GETLimit(raw) ==
  MathMin(Integer(MAX_PER_SOURCE),
          MathMax(Integer(1),
                  parseInt(IF raw.k = "null" \/ raw.s = <<>> THEN MaxPerSourceString ELSE raw.s)))

\* the limit of POST; limit is body.limit: a JSON value, or undefined
POSTLimit(limit) ==
  LET n == ToNumber(limit) IN
  MathMin(Integer(MAX_PER_SOURCE),
          MathMax(Integer(1), IF FalsyNumber(n) THEN Integer(MAX_PER_SOURCE) ELSE n))

\* the strings of the model
Strings == UNION {[1..n -> Chars] : n \in 0..MaxChars}

\* the values of the limit query parameter
QueryValues == {[k |-> "null"]} \cup {[k |-> "string", s |-> s] : s \in Strings}

\* the numbers a JSON body can carry as limit: -1, 0, 0.5, 1, 2.5, 3, 10, 10.5, 11, 1e999
JSONNumbers ==
  {JSNumber((n * Scale) \div 2) : n \in {-2, 0, 1, 2, 5, 6, 20, 21, 22}} \cup {Infinity}

\* the values body.limit can have
LimitValues ==
  {[k |-> "undefined"], [k |-> "null"]}
  \cup {[k |-> "boolean", b |-> b] : b \in BOOLEAN}
  \cup JSONNumbers
  \cup {[k |-> "string", s |-> s] : s \in Strings}

\* the request bodies: not JSON at all, the JSON value null, or an object
Bodies ==
  {[k |-> "invalid"], [k |-> "null"]} \cup {[k |-> "object", limit |-> v] : v \in LimitValues}

InitLimit ==
  /\ limIn \in {[method |-> "GET", raw |-> raw] : raw \in QueryValues}
               \cup {[method |-> "POST", body |-> body] : body \in Bodies}
  /\ limOut = [status |-> "pending"]
  /\ AggIdle!1 /\ AggIdle!2
  /\ EnrichIdle /\ SumIdle /\ FeedIdle /\ ViewIdle
  /\ supabaseAdmin = TRUE
  /\ posts = <<>>
  /\ PipelineIdle

\* GET up to the call fetchAllArticles(limit, true)
GETHandler ==
  /\ limIn.method = "GET" /\ limOut.status = "pending"
  /\ limOut' = [status |-> "called", limit |-> GETLimit(limIn.raw)]
  /\ UNCHANGED <<limIn, callVars, feedVars, viewVars, reqVars, bgVars, syncVars, histVars>>

\* POST up to the call fetchAllArticles(limit, true): req.json().catch(() => ({})) turns a
\* body that is not JSON into {}; on the body null, body.limit throws and the catch
\* block answers 500
POSTHandler ==
  /\ limIn.method = "POST" /\ limOut.status = "pending"
  /\ limOut' =
       IF limIn.body.k = "null" THEN [status |-> "error500"]
       ELSE [status |-> "called",
             limit |-> POSTLimit(IF limIn.body.k = "invalid" THEN [k |-> "undefined"]
                                 ELSE limIn.body.limit)]
  /\ UNCHANGED <<limIn, callVars, feedVars, viewVars, reqVars, bgVars, syncVars, histVars>>

NextLimit == GETHandler \/ POSTHandler

SpecLimit == InitLimit /\ [][NextLimit]_vars

(***************************************************************************)
(* SpecFeed: the feed client's infinite query (src/hooks/useFeed.ts)       *)
(* against POST /api/articles/fetch.                                       *)
(***************************************************************************)
\* a faulty meta: pages of 25 articles are announced
buildMetaPaged(count) ==
  [count |-> count, page |-> 1, per_page |-> 25, total_pages |-> (count \div 25) + 1]

\* buildMeta(count)
buildMeta(count) == [count |-> count, page |-> 1, per_page |-> count, total_pages |-> 1]

\* four adapters deliver at most MAX_PER_SOURCE articles each
MaxResponseArticles == 4 * MAX_PER_SOURCE

\* nextCursor of a page: null is 0
NextCursor(meta, pageParam) == IF meta.page < meta.total_pages THEN pageParam + 1 ELSE 0

\* hasNextPage: getNextPageParam(lastPage) = lastPage.nextCursor || undefined is defined
HasNextPage(pages) == pages # <<>> /\ pages[Len(pages)].nextCursor # 0

InitFeed ==
  /\ FeedIdle
  /\ AggIdle!1 /\ AggIdle!2
  /\ EnrichIdle /\ SumIdle /\ LimitIdle /\ ViewIdle
  /\ supabaseAdmin = TRUE
  /\ posts = <<>>
  /\ PipelineIdle

\* the query function runs for the first page (initialPageParam 1): on mount, or again
\* after a failed request
FeedQuery ==
  /\ feedReq = 0 /\ feedPages = <<>>
  /\ feedReq' = 1
  /\ feedAsked' = feedAsked \cup {1}
  /\ UNCHANGED <<feedResp, feedPages, feedScroll, callVars, limVars, viewVars, reqVars, bgVars,
                 syncVars, histVars>>

\* the endpoint answers: { articles: response, meta: buildMeta(response.length) }, or the
\* status 500 of the catch block; the articles stand for toArticleResponse(stored)
FeedServe ==
  /\ feedReq # 0 /\ feedResp.status = "none"
  /\ \/ \E n \in 0..MaxResponseArticles :
          LET articles == [i \in 1..n |-> i] IN
          feedResp' = [status |-> "ok", articles |-> articles, meta |-> buildMeta(Len(articles))]
     \/ feedResp' = [status |-> "error"]
  /\ UNCHANGED <<feedReq, feedPages, feedAsked, feedScroll, callVars, limVars, viewVars, reqVars,
                 bgVars, syncVars, histVars>>

\* the query function gets the answer: it throws on a status that is not ok, else it
\* returns the page { items, nextCursor }; with the sentinel in view and a next page the
\* scroller's observer calls loadMore, which fetches the next page
FeedReceive ==
  /\ feedResp.status # "none"
  /\ IF feedResp.status = "ok"
     THEN LET page == [items |-> feedResp.articles,
                       nextCursor |-> NextCursor(feedResp.meta, feedReq)]
              pages == Append(feedPages, page)
          IN /\ feedPages' = pages
             /\ IF feedScroll = "end" /\ HasNextPage(pages)
                THEN /\ feedReq' = page.nextCursor
                     /\ feedAsked' = feedAsked \cup {page.nextCursor}
                ELSE /\ feedReq' = 0
                     /\ feedAsked' = feedAsked
     ELSE /\ feedReq' = 0
          /\ UNCHANGED <<feedPages, feedAsked>>
  /\ feedResp' = [status |-> "none"]
  /\ UNCHANGED <<feedScroll, callVars, limVars, viewVars, reqVars, bgVars, syncVars, histVars>>

\* the user scrolls to the end of the list: the sentinel of InfiniteScroller comes into
\* view, and loadMore runs if (hasMore && !isLoading)
ScrollToEnd ==
  /\ feedScroll = "top"
  /\ feedScroll' = "end"
  /\ IF HasNextPage(feedPages) /\ feedReq = 0
     THEN /\ feedReq' = feedPages[Len(feedPages)].nextCursor
          /\ feedAsked' = feedAsked \cup {feedPages[Len(feedPages)].nextCursor}
     ELSE UNCHANGED <<feedReq, feedAsked>>
  /\ UNCHANGED <<feedResp, feedPages, callVars, limVars, viewVars, reqVars, bgVars, syncVars,
                 histVars>>

\* the user scrolls back
ScrollToTop ==
  /\ feedScroll = "end"
  /\ feedScroll' = "top"
  /\ UNCHANGED <<feedReq, feedResp, feedPages, feedAsked, callVars, limVars, viewVars, reqVars,
                 bgVars, syncVars, histVars>>

\* refresh(): invalidateQueries(['posts', category]) refetches the query from its first page
FeedRefresh ==
  /\ feedReq = 0 /\ feedPages # <<>>
  /\ feedPages' = <<>>
  /\ feedReq' = 1
  /\ feedAsked' = feedAsked \cup {1}
  /\ UNCHANGED <<feedResp, feedScroll, callVars, limVars, viewVars, reqVars, bgVars, syncVars,
                 histVars>>

NextFeed == FeedQuery \/ FeedServe \/ FeedReceive \/ ScrollToEnd \/ ScrollToTop \/ FeedRefresh

SpecFeed == InitFeed /\ [][NextFeed]_vars

(***************************************************************************)
(* SpecView: POST /api/posts/[id]/view for one existing post               *)
(* (src/pages/api/posts/[id]/view.ts), requests running concurrently.      *)
(***************************************************************************)
\* view_count of the post when the requests arrive
ViewCounts == {0, 41}

InitView ==
  /\ viewCount \in ViewCounts
  /\ viewBefore = viewCount
  /\ viewPc = [r \in ViewReqs |-> "idle"]
  /\ viewRead = [r \in ViewReqs |-> 0]
  /\ viewRes = [r \in ViewReqs |-> "none"]
  /\ AggIdle!1 /\ AggIdle!2
  /\ EnrichIdle /\ SumIdle /\ LimitIdle /\ FeedIdle
  /\ supabaseAdmin = TRUE
  /\ posts = <<>>
  /\ PipelineIdle

\* incrementView up to its first query: select('view_count').eq('id', postId).single();
\* on an error the request answers 404
ViewSelect(r) ==
  /\ viewPc[r] = "idle"
  /\ \E db \in {"ok", "error"} :
       IF db = "ok"
       THEN /\ viewRead' = [viewRead EXCEPT ![r] = viewCount]
            /\ viewPc' = [viewPc EXCEPT ![r] = "selected"]
            /\ viewRes' = viewRes
       ELSE /\ viewRes' = [viewRes EXCEPT ![r] = "404"]
            /\ viewPc' = [viewPc EXCEPT ![r] = "done"]
            /\ viewRead' = viewRead
  /\ UNCHANGED <<viewCount, viewBefore, callVars, limVars, feedVars, reqVars, bgVars, syncVars,
                 histVars>>

\* update({ view_count: currentPost.view_count + 1 }).eq('id', postId): the request answers
\* 200 with the updated post, or, when the update fails, 200 with "View count not updated"
ViewUpdate(r) ==
  /\ viewPc[r] = "selected"
  /\ \E db \in {"ok", "error"} :
       IF db = "ok"
       THEN /\ viewCount' = viewRead[r] + 1
            /\ viewRes' = [viewRes EXCEPT ![r] = "updated"]
       ELSE /\ viewCount' = viewCount
            /\ viewRes' = [viewRes EXCEPT ![r] = "not updated"]
  /\ viewPc' = [viewPc EXCEPT ![r] = "done"]
  /\ UNCHANGED <<viewBefore, viewRead, callVars, limVars, feedVars, reqVars, bgVars, syncVars,
                 histVars>>

NextView == \E r \in ViewReqs : ViewSelect(r) \/ ViewUpdate(r)

SpecView == InitView /\ [][NextView]_vars

\* the external calls of the background cycle end (fetch has a 5 s timeout) and the
\* event loop runs every continuation that is ready
SpecBgFair ==
  /\ SpecBg
  /\ \A r \in Reqs :
       /\ WF_vars(BgBatchDone(r))
       /\ \A k \in 1..MaxTotalCands : WF_vars(TaskSettles(r, k))

(***************************************************************************)
(* Claims.                                                                 *)
(***************************************************************************)
\* the URLs of a list are pairwise different
DistinctUrls(articles) ==
  \A i \in 1..Len(articles), j \in 1..Len(articles) : i # j => articles[i].url # articles[j].url

\* both requests have been answered and their persistence work has ended
BothRunsEnded == \A r \in Reqs : pc[r] = "responded"

\* C1: after two runs of the pipeline, one after the other, over candidate sets that share
\* URLs, the posts table never holds two rows with the same article_url
C1_IdempotentIngestion ==
  /\ BothRunsEnded /\ ~overlapped
  /\ \A r \in Reqs : DistinctUrls(cands[r])
  /\ \E i \in 1..Len(cands[1]), j \in 1..Len(cands[2]) : cands[1][i].url = cands[2][j].url
  => DuplicatedUrls(posts) = {}

\* C2: when two overlapping requests both carry a candidate for a URL that has no Record
\* yet (and both lookups succeeded), the store ends with at most one Record for that URL
C2_ConcurrentUpsertSafety ==
  /\ BothRunsEnded /\ overlapped
  /\ \A r \in Reqs : DistinctUrls(cands[r]) /\ lookup[r] = "ok"
  => DuplicatedUrls(posts) = {}

\* the canned strings: placeholders and templated fallbacks
PlaceholderKinds == {"smart", "edu", "fallback", "templated"}
IsRealSummary(c) == Truthy(c) /\ c.k \notin PlaceholderKinds

\* C3: once a Record's summary is a non-placeholder value, no later step replaces it with
\* a placeholder or with null
C3_SummaryMonotonicity ==
  [][\A i \in 1..Len(posts) :
       IsRealSummary(posts[i].content) => IsRealSummary(posts'[i].content)]_vars

\* the input of the aggregator call, for the claims about it
AggExpected == ConcatSucceeded(aggIn.limit, aggIn.wire, 1)

\* C4 (as stated): whatever adapters fail, the result of fetchAllArticles equals the
\* concatenation of the results of the adapters that succeeded
C4_ResultIsConcatenation ==
  aggOut.status = "returned" => aggOut.value = AggExpected

\* C4 (amended): whatever adapters fail, fetchAllArticles returns (it does not throw) a
\* permutation of the concatenation of the succeeding adapters' results, and exactly that
\* concatenation when shouldShuffle is false
C4_ResultIsShuffledConcatenation ==
  /\ aggOut.status \in {"pending", "returned"}
  /\ aggOut.status = "returned" =>
       /\ IsPermutation(aggOut.value, AggExpected)
       /\ ~aggIn.shouldShuffle => aggOut.value = AggExpected

\* two of the four adapters failed and the call returned the others' articles
C4_Witness ==
  /\ aggOut.status = "returned"
  /\ Cardinality((1..4) \ Succeeded(aggIn.wire)) = 2
  /\ Len(aggOut.value) >= 2
  /\ aggOut.value # AggExpected

\* C5: between receiving a request and returning its response the handler performs no
\* page-content fetch and no LLM call for a candidate whose URL already has a Record with
\* a cached summary
C5_NoForegroundEnrichmentOfCached ==
  \A r \in Reqs : \A c \in calls[r] : ~c.cached

\* the entries of the known/new split of request r
SplitEntries(r) == shown[r] \o toUpdate[r] \o newArticles[r]

\* C6: the known/new split of a candidate list holds at most one entry per URL
C6_BatchDedup ==
  \A r \in Reqs : pc[r] = "split" => DistinctUrls(SplitEntries(r))

\* the tasks of request r that are in progress
InFlight(r) == {k \in 1..Len(queue[r]) : task[r][k] = "fetching"}

\* C7: two overlapping requests that both queued the same URL never have an enrichment
\* task for that URL in progress at the same time
C7_NoDuplicatedEffort ==
  \A k1 \in InFlight(1), k2 \in InFlight(2) : queue[1][k1].url # queue[2][k2].url

BatchOf(k) == (k - 1) \div BATCH_SIZE

\* a task that has been started
Started(r, k) == task[r][k] \in {"fetching", "settled"}

\* C9: within one cycle no task of batch n+1 starts before every task of batch n has
\* settled, and at most 2 tasks of the cycle are in flight
C9_BatchSequencing ==
  \A r \in Reqs :
    /\ Cardinality(InFlight(r)) <= 2
    /\ \A k \in 1..Len(queue[r]), j \in 1..Len(queue[r]) :
         Started(r, k) /\ BatchOf(j) < BatchOf(k) => task[r][j] = "settled"

\* a task of the second batch is in flight
C9_Witness ==
  \E r \in Reqs : \E k \in InFlight(r) : BatchOf(k) = 1

\* C10: in one cycle every queued candidate is attempted exactly once (never twice, and
\* all of them by the end of the cycle, whatever became of the other tasks), and a cycle
\* that has started eventually ends
C10_TaskIsolation ==
  /\ [](\A r \in Reqs : \A k \in 1..Len(queue[r]) : attempts[r][k] <= 1)
  /\ [](\A r \in Reqs : cycle[r].st = "done" =>
          \A k \in 1..Len(queue[r]) : attempts[r][k] = 1 /\ task[r][k] = "settled")
  /\ \A r \in Reqs : (cycle[r].st = "running") ~> (cycle[r].st = "done")

\* a cycle of three tasks has ended with every task attempted once although no task of
\* it wrote anything (the store is still empty)
C10_Witness ==
  \E r \in Reqs :
    /\ cycle[r].st = "done" /\ Len(queue[r]) = 3 /\ posts = <<>>
    /\ \A k \in 1..Len(queue[r]) : attempts[r][k] = 1

\* C11: a Record that holds only a placeholder summary is never taken for a finished cached
\* summary: no request that looked the URL up serves the persisted placeholder as the
\* known entry's summary instead of treating the URL as needing enrichment
C11_PlaceholderReattempted ==
  \A r \in Reqs : pc[r] = "split" /\ lookup[r] = "ok" =>
    \A i \in 1..Len(shown[r]) :
      shown[r][i].id # NOID => shown[r][i].content.k \notin PlaceholderKinds

\* the titles under which the requests' candidates carry the URL
CandidateTitles(url) ==
  UNION {{cands[r][i].title : i \in {k \in 1..Len(cands[r]) : cands[r][k].url = url}} :
         r \in Reqs}

\* C12: when a candidate's URL already has a Record, the persistence step updates the
\* Record's title to the candidate's title: once persistArticles has returned, every
\* Record of a candidate's URL carries a title of a candidate for that URL
C12_KnownUrlTitleUpdated ==
  \A r \in Reqs : SyncRunEnded(r) /\ lookup[r] = "ok" /\ supabaseAdmin =>
    \A i \in 1..Len(cands[r]), j \in 1..Len(posts) :
      posts[j].url = cands[r][i].url => posts[j].title \in CandidateTitles(posts[j].url)

\* the rows of the table for a URL
RowsOf(table, url) == {j \in 1..Len(table) : table[j].url = url}

GarbledOrigins == {"absGarbled", "descGarbled"}

\* the value is such a text, or a truncation of it
IsGarbled(c) == c.k \in {"text", "trunc"} /\ c.of \in GarbledOrigins

\* C14: the final summary of the Enricher is never a text dominated by non-alphanumeric
\* characters (nor a truncation of it), whether the text came in as abstract, as
\* description or as scraped page
C14_GarbledTextRejected ==
  enrOut.status = "returned" /\ enrIn.generateSummaries =>
    \A i \in 1..Len(enrOut.value) : ~IsGarbled(enrOut.value[i].content)

\* the candidate carries a provider abstract of more than 50 characters
HasUsableAbstract(article) == Truthy(article.abstract) /\ TextLen(article.abstract) > 50

\* the step is the batch insert of request r and the store accepted it
InsertAccepted(r) ==
  pc[r] = "split" /\ pc'[r] = "persisted" /\ Len(posts') > Len(posts)

C16_NeverEmptySummary ==
  \A r \in Reqs : pc[r] = "responded" =>
    \A i \in 1..Len(response[r]) : Truthy(response[r][i].content)

\* C17: no page-content fetch goes to a URL that is a PDF document or an arxiv.org page
\* (here: none of the background tasks in flight has sent its fetch to such a URL)
C17_NoPdfOrArxivScraping ==
  \A r \in Reqs : \A k \in InFlight(r) :
    IssuesFetchV3(queue[r][k].url) => queue[r][k].url \notin PdfOrArxivUrls

\* the article carries a provider text (abstract, or else description) of 50 characters
\* or more
HasProviderText50(article) ==
  \/ Truthy(article.abstract) /\ TextLen(article.abstract) >= 50
  \/ Truthy(article.content) /\ TextLen(article.content) >= 50

\* C18: a provider text of 50 characters or more (exactly 50 included) is usable: it is
\* summarized directly and no page fetch runs for the candidate
C18_PriorityAndThreshold ==
  enrOut.status = "returned" /\ enrIn.generateSummaries /\ HasProviderText50(enrIn.article) =>
    /\ \A c \in enrOut.calls : c.kind # "page"
    /\ \E c \in enrOut.calls : c.kind = "llm"

BestText == IF Truthy(sumIn.abstract) THEN sumIn.abstract ELSE sumIn.fullText

\* C20: generateArticleSummary always returns: the templated sentence when no text is
\* available; when the LLM call fails, the best available text, whole if it has at most
\* 300 characters and else cut to 300 characters plus '...'
C20_SummarizationNeverPropagates ==
  /\ sumOut.status \in {"pending", "returned"}
  /\ sumOut.status = "returned" =>
       /\ ~Truthy(BestText) => sumOut.value = Txt("templated", sumIn.title)
       /\ Truthy(BestText) /\ sumIn.llm = "throws" =>
            /\ sumOut.value.of = BestText.of
            /\ TextLen(sumOut.value) <= 303
            /\ TextLen(BestText) <= 300 => sumOut.value = BestText
       /\ Truthy(BestText) /\ sumIn.llm = "ok" => sumOut.value = Txt("llm", BestText.of)

\* the LLM call failed on a full text of 400 characters, no abstract, and the call returned
\* the truncation
C20_Witness ==
  /\ sumOut.status = "returned" /\ sumIn.llm = "throws"
  /\ ~Truthy(sumIn.abstract) /\ sumIn.fullText = Txt("text", "page")
  /\ sumOut.value = Txt("trunc", "page")

\* the content a candidate has in memory when it is handed to the insert: what the
\* enrichment left, or the educational placeholder when it left nothing
InMemory(articles) ==
  [i \in 1..Len(articles) |->
     IF Truthy(articles[i].content) THEN articles[i]
     ELSE [articles[i] EXCEPT !.content = Txt("edu", articles[i].source)]]

\* the lists the enrichment step can have produced from the candidates of request r
EnrichedLists(articles) ==
  {enrichWithContentAndSummary(articles, generateSummaries, page, llm) :
     generateSummaries \in BOOLEAN, page \in SyncPageOutcomes, llm \in {"ok", "empty", "throws"}}

\* the same, tabulated for the candidate lists a request can receive
EnrichedOf == [articles \in SyncCandidateLists |-> EnrichedLists(articles)]

\* C21: a persistence failure does not degrade the response.  Store unavailable (no admin
\* client, no system profile): the handler goes on with the enriched candidates as they
\* are.  Failed lookup: every candidate is carried on with its in-memory content.  Failed
\* update: the article stays in the list that is pushed to the result.  Failed insert: the
\* result ends with the unsaved articles and their in-memory content.  In every case the
\* request can respond, with one item per aggregated candidate
C21_PersistenceFailureKeepsResponse ==
  /\ [](\A r \in Reqs :
          /\ pc[r] = "persisted" => Len(shown[r]) = Len(cands[r]) /\ ENABLED SyncRespond(r)
          /\ pc[r] = "responded" =>
               /\ response[r] = toArticleResponse(shown[r])
               /\ Len(response[r]) = Len(cands[r]))
  /\ [][\A r \in Reqs :
          /\ pc[r] = "idle" /\ pc'[r] # "idle" /\ (~supabaseAdmin \/ lookup'[r] = "nosystem") =>
               pc'[r] = "persisted" /\ shown'[r] \in EnrichedOf[cands'[r]]
          /\ pc[r] = "idle" /\ pc'[r] # "idle" /\ supabaseAdmin /\ lookup'[r] = "lookuperr" =>
               /\ shown'[r] = <<>> /\ toUpdate'[r] = <<>>
               /\ newArticles'[r] \in EnrichedOf[cands'[r]]
          /\ \A k \in 1..Len(toUpdate[r]) :
               updates[r][k] = "pending" /\ updates'[r][k] = "done" /\ posts' = posts =>
                 toUpdate'[r] = toUpdate[r] /\ Truthy(toUpdate[r][k].content)
          /\ pc[r] = "split" /\ pc'[r] = "persisted" =>
               /\ SliceTo(shown'[r], Len(shown[r]) + Len(toUpdate[r])) = shown[r] \o toUpdate[r]
               /\ posts' = posts =>
                    shown'[r] = shown[r] \o toUpdate[r] \o InMemory(newArticles[r])]_vars

\* a request whose lookup and whose insert both failed has responded with its three
\* candidates, none of them saved, each with a summary
C21_Witness ==
  \E r \in Reqs :
    /\ pc[r] = "responded" /\ supabaseAdmin /\ lookup[r] = "lookuperr" /\ posts = <<>>
    /\ Len(response[r]) = 3
    /\ \A i \in 1..3 : response[r][i].id.post = NOID /\ Truthy(response[r][i].content)

\* C22: no candidate is classified as new, and no insert is issued, unless the request's
\* one lookup of the candidates' URLs completed successfully; a failed lookup leads to no
\* inserts
C22_CompleteDedupView ==
  [][\A r \in Reqs :
       /\ Len(newArticles'[r]) > 0 => lookup'[r] = "ok"
       /\ InsertAccepted(r) => lookup[r] = "ok"]_vars

\* the adapters' results, concatenated in registration order: arXiv, Hacker News,
\* ScienceDaily, NewsAPI
RegistrationOrderConcat ==
  LET result == Fetchers(aggIn.limit, aggIn.wire) IN
  result[1].value \o result[2].value \o result[3].value \o result[4].value

\* how often the item occurs in the list
Occurrences(x, s) == Cardinality({i \in 1..Len(s) : s[i] = x})

\* C23: fetchAllArticles returns the items of the adapters' results, each as often as the
\* adapters delivered it, nothing added and nothing lost; without the shuffle the result
\* is the concatenation in registration order, in whatever order the adapters finished
C23_AggregationOrder ==
  aggOut.status = "returned" =>
    /\ Len(aggOut.value) = Len(RegistrationOrderConcat)
    /\ \A x \in Range(aggOut.value) \cup Range(RegistrationOrderConcat) :
         Occurrences(x, aggOut.value) = Occurrences(x, RegistrationOrderConcat)
    /\ ~aggIn.shouldShuffle => aggOut.value = RegistrationOrderConcat

\* NewsAPI settled first and arXiv last, every adapter delivered, and the call without
\* shuffle returned arXiv's article first and NewsAPI's last
C23_Witness ==
  /\ aggOut.status = "returned" /\ ~aggIn.shouldShuffle
  /\ aggIn.finish[1] = 4 /\ aggIn.finish[4] = 1
  /\ Len(aggOut.value) >= 4
  /\ aggOut.value[1].source = "arXiv"
  /\ aggOut.value[Len(aggOut.value)].source = "NewsAPI Business"

\* C24: the limit GET and POST pass to the adapters is an integer between 1 and
\* MAX_PER_SOURCE, whatever the limit query parameter or the body
C24_LimitClamped ==
  limOut.status = "called" =>
    /\ limOut.limit.k = "number"
    /\ limOut.limit.v % Scale = 0
    /\ Scale <= limOut.limit.v /\ limOut.limit.v <= MAX_PER_SOURCE * Scale

\* C25: every successful response carries meta.count = number of articles, page 1,
\* per_page = count and total_pages 1; the feed client computes no next page from it
\* (nextCursor null, no next page offered) and never asks for a page other than the first
C25_SinglePageMeta ==
  /\ feedResp.status = "ok" =>
       /\ feedResp.meta.count = Len(feedResp.articles)
       /\ feedResp.meta.page = 1
       /\ feedResp.meta.per_page = feedResp.meta.count
       /\ feedResp.meta.total_pages = 1
  /\ \A i \in 1..Len(feedPages) : feedPages[i].nextCursor = 0
  /\ ~HasNextPage(feedPages)
  /\ Len(feedPages) <= 1
  /\ feedAsked \subseteq {1}

\* the client holds a page of 40 articles (more than the 25 per page it asked for), the
\* user has scrolled to its end, and no request is in flight
C25_Witness ==
  /\ Len(feedPages) = 1 /\ Len(feedPages[1].items) = 40
  /\ feedScroll = "end" /\ feedReq = 0 /\ feedAsked = {1}

\* the task fails under these answers: the page fetch yields no content, or the store
\* rejects the write
TaskFails(article, page, db) ==
  ~(article.url # "" /\ page = "text") \/ db = "error"

\* C26: a failed enrichment task leaves the store unchanged: whatever task is in flight,
\* under every answer of the page and of the store with which it fails the table after
\* the task is the table before it; and a task that ends changes the store only by the
\* one write of its summary
C26_FailedTaskLeavesStore ==
  /\ [](\A r \in Reqs : \A k \in InFlight(r) : \A page \in PageOutcomes, db \in {"ok", "error"} :
          TaskFails(queue[r][k], page, db) => TaskEffect(posts, queue[r][k], page, db) = posts)
  /\ [][\A r \in Reqs : \A k \in InFlight(r) :
          task'[r][k] = "settled" =>
            \/ posts' = posts
            \/ /\ queue[r][k].url # ""
               /\ posts' = TaskWrite(posts, queue[r][k], "ok")]_vars

\* a task for a URL without Record has ended and the URL still has no Record: the task
\* failed and inserted nothing
C26_Witness ==
  \E r \in Reqs : \E k \in 1..Len(queue[r]) :
    /\ task[r][k] = "settled" /\ queue[r][k].id = NOID /\ queue[r][k].url = "u1"
    /\ RowsOf(posts, "u1") = {}

\* the requests whose update the store accepted
ViewsCounted == {r \in ViewReqs : viewRes[r] = "updated"}

\* C27: when no request is in progress, the post's view_count is higher than before by
\* the number of requests that were answered with the updated post
C27_NoLostView ==
  (\A r \in ViewReqs : viewPc[r] \in {"idle", "done"}) =>
    viewCount = viewBefore + Cardinality(ViewsCounted)

\* C28: when the candidate list of one run holds a URL twice and the URL has no Record
\* (the run's lookup succeeded and found none), the run's insert creates at most one
\* Record for that URL
C28_SingleRunDuplicates ==
  [][\A r \in Reqs : InsertAccepted(r) /\ lookup[r] = "ok" =>
       \A i \in 1..Len(newArticles[r]) :
         RowsOf(posts, newArticles[r][i].url) = {} =>
           Cardinality(RowsOf(posts', newArticles[r][i].url)) <= 1]_vars

\* the URL and the title of each article of a list
Keys(articles) == [i \in 1..Len(articles) |-> <<articles[i].url, articles[i].title>>]
ResponseKeys(r) ==
  [i \in 1..Len(response[r]) |-> <<response[r][i].article_url, response[r][i].title>>]

RECURSIVE IsSubsequence(_, _)
\* s is t with some items left out: the items of s are in the order they have in t
IsSubsequence(s, t) ==
  IF s = <<>> THEN TRUE
  ELSE IF t = <<>> THEN FALSE
  ELSE IF Head(s) = Head(t) THEN IsSubsequence(Tail(s), Tail(t))
  ELSE IsSubsequence(s, Tail(t))

\* C29 (as stated): the response has exactly one item per aggregated candidate, in the
\* order of the list fetchAllArticles returned: its i-th item is the i-th candidate
C29_ResponseOrder ==
  \A r \in Reqs : pc[r] = "responded" =>
    /\ Len(response[r]) = Len(cands[r])
    /\ \A i \in 1..Len(response[r]) :
         /\ response[r][i].article_url = cands[r][i].url
         /\ response[r][i].title = cands[r][i].title

\* C29 (amended): the response has exactly one item per aggregated candidate.  Without
\* store (no admin client, no system profile) the items are in the candidates' order.
\* Otherwise persistArticles regroups them: first the candidates served from their Record,
\* then the candidates whose Record was updated, then the new candidates; within each
\* group the candidates keep the order of the list fetchAllArticles returned
C29_ResponseRegrouped ==
  \A r \in Reqs : pc[r] = "responded" =>
    /\ Len(response[r]) = Len(cands[r])
    /\ IsPermutation(ResponseKeys(r), Keys(cands[r]))
    /\ IF ~supabaseAdmin \/ lookup[r] = "nosystem"
       THEN ResponseKeys(r) = Keys(cands[r])
       ELSE LET served == Len(response[r]) - Len(toUpdate[r]) - Len(newArticles[r]) IN
            /\ served >= 0
            /\ SubSeq(ResponseKeys(r), served + 1, Len(response[r]))
                 = Keys(toUpdate[r]) \o Keys(newArticles[r])
            /\ IsSubsequence(SubSeq(ResponseKeys(r), 1, served), Keys(cands[r]))
            /\ IsSubsequence(Keys(toUpdate[r]), Keys(cands[r]))
            /\ IsSubsequence(Keys(newArticles[r]), Keys(cands[r]))

\* a response of three items whose first item is not the first candidate: the candidate
\* served from its Record has been moved before two new candidates
C29_Witness ==
  \E r \in Reqs :
    /\ pc[r] = "responded" /\ Len(response[r]) = 3 /\ Len(newArticles[r]) = 2
    /\ ResponseKeys(r)[1] # Keys(cands[r])[1]
    /\ ResponseKeys(r)[1] \in {Keys(cands[r])[2], Keys(cands[r])[3]}

\* C30: over all the cycles that overlapping requests have started, at most 2 background
\* enrichment tasks are in flight at any moment
C30_SystemWideEnrichmentBound ==
  Cardinality(InFlight(1)) + Cardinality(InFlight(2)) <= 2

====
